---- MODULE Spec2Model ----
(***************************************************************************)
(* Model of the Movi transport agent request pipeline                      *)
(* (backend/app/agent: state.py, edges.py, graph.py, nodes/*.py), of the   *)
(* retry helper (backend/app/utils/retry.py) and of the tools the pipeline *)
(* executes (backend/app/tools).                                           *)
(*                                                                         *)
(* Encoding of Python values:                                              *)
(*   - None / a missing dict key of a string-valued field is NULL;         *)
(*   - texts that the code only tests for truthiness or for a substring    *)
(*     (error, execution_error) are sequences of lower-case words, the     *)
(*     empty sequence standing for None;                                   *)
(*   - texts that are only measured (confirmation_message, response) are   *)
(*     records [src, len]: who produced the text and how long it is;       *)
(*   - ids are positive integers, NoId standing for a missing key.         *)
(***************************************************************************)
EXTENDS Integers, Sequences, FiniteSets, TLC

VARIABLES
    db,       \* the data store: deployments and booking percentages
    state,    \* the AgentState of the run in progress
    node,     \* the graph node that runs next ("idle" between runs)
    run,      \* bookkeeping of the run in progress (what the caller passed, what ran)
    pending,  \* the response of the last run that asked for confirmation
    explained,\* user inputs for which some run ended with a confirmation request
    unit      \* input and output of a direct call (unit-level specifications)

vars == <<db, state, node, run, pending, explained, unit>>

NULL == "NULL"
\* dict.get(key) of a missing key (None)
NoId == 0
\* an identifier that is a display name matching no row of the data store
UnknownName == -1
\* tool_params without trip_id that carry a keyword of retry_with_backoff
\* itself (such as max_attempts)
CollidingParams == -2

----------------------------------------------------------------------------
(* Bounds of the model *)

\* trips 1..NumTrips exist; trip NumTrips + 1 is referenced but does not exist
NumTrips == 2
\* vehicles 1..NumVehicles
NumVehicles == 2
\* largest max_attempts tried on retry_with_backoff in SpecRetry
MaxAttemptsBound == 4

\* independent callers of the tools in SpecTools
NumCallers == 2
\* tool calls each of them makes
MaxCallsPerCaller == 2

TripIds == 1..NumTrips
VehicleIds == 1..NumVehicles
UnknownTrip == NumTrips + 1
\* the one route, on which every trip runs, and a route id that has no row
RouteIds == {1}
UnknownRoute == 2
\* booking_percentage of each trip: odd trips are 25% booked, even trips have no booking
BookingOf(t) == IF t % 2 = 1 THEN 25 ELSE 0

UserInputs == {"remove vehicle from trip"}

----------------------------------------------------------------------------
(* Texts *)

Words(s) == {s[i] : i \in 1..Len(s)}
\* Python: word in text.lower()
Contains(s, w) == w \in Words(s)
NoError == <<>>
NoMsg == [src |-> "none", len |-> 0]

ErrConfirmationRequired == <<"confirmation", "required">>
ErrConfirmationNotReceived ==
    <<"action", "requires", "user", "confirmation", "but", "confirmation", "not", "received">>
ErrMissingToolName == <<"missing", "tool_name">>
ErrNoToolSpecified == <<"no", "tool", "specified", "for", "execution">>
ErrUnknownTool == <<"unknown", "tool">>
ErrToolNotInRegistry == <<"tool", "not", "found", "in", "tool_registry">>
ErrJson == <<"failed", "to", "parse", "claude", "response", "as", "json">>
ErrClassification == <<"classification", "failed">>
ErrNotImplemented == <<"consequence", "checking", "not", "implemented", "for", "intent">>
ErrMissingEntity == <<"missing", "entity_id", "for", "consequence", "checking">>
ErrUnresolved == <<"could", "not", "resolve", "entity", "identifier", "to", "id">>
ErrTripNotFound == <<"trip", "id", "not", "found">>
ErrPathNotFound == <<"path", "not", "found">>
ErrNoVehicle == <<"no", "vehicle", "assigned", "to", "trip">>
ErrDbFault == <<"database", "connection", "lost">>
ErrCheckFailed == <<"consequence", "checking", "failed">>
ErrTypeError == <<"missing", "required", "positional", "argument">>
ErrFailedAfter(e) == <<"tool", "failed", "after", "attempts">> \o e
ErrRaisedAfter(e) == <<"tool", "raised", "after", "attempts">> \o e
ErrParameterError(e) == <<"parameter", "error", "when", "calling">> \o e
ErrParameterMismatch(e) == <<"parameter", "mismatch">> \o e
ErrMultipleValues == <<"got", "multiple", "values", "for", "keyword", "argument">>
ErrNodeFailed == <<"execute", "action", "node", "failed">> \o ErrDbFault

----------------------------------------------------------------------------
(* Data store *)

\* a Deployment row links one trip to one vehicle; deployment_id is the
\* autoincremented primary key
Deployments == [trip_id : TripIds, vehicle_id : VehicleIds, deployment_id : TripIds]

\* at most one Deployment per trip and per vehicle; routes counts the Route
\* rows created
UniqueDeployments(ds) ==
    \A a, b \in ds : (a.trip_id = b.trip_id \/ a.vehicle_id = b.vehicle_id) => a = b

\* the stores the model starts from: any set of trips is deployed, trip t
\* with vehicle t when that vehicle exists
DbStates ==
    {[deployments |-> {x \in Deployments : /\ x.trip_id \in ts
                                            /\ x.vehicle_id = x.trip_id
                                            /\ x.deployment_id = x.trip_id},
      booking |-> [t \in TripIds |-> BookingOf(t)],
      routes |-> 0] : ts \in SUBSET TripIds}

HasDeployment(d, t) == \E x \in d.deployments : x.trip_id = t

----------------------------------------------------------------------------
(* Tools: each call returns [raised, success, error, db] *)

ToolReturn(ok, err, d) == [raised |-> FALSE, success |-> ok, error |-> err, db |-> d]
ToolRaise(err, d) == [raised |-> TRUE, success |-> FALSE, error |-> err, db |-> d]

\* beh = "fault": a data-store call before the commit raises; the tool rolls
\* back and returns error_response.  beh = "fault_after": the data-store call
\* that follows the commit (db.refresh) raises; the rollback undoes nothing and
\* the tool returns error_response.  Only the create tools make such a call.
remove_vehicle_from_trip(trip_id, d, beh) ==
    IF beh = "fault" THEN ToolReturn(FALSE, ErrDbFault, d)
    ELSE IF trip_id \notin TripIds THEN ToolReturn(FALSE, ErrTripNotFound, d)
    ELSE IF ~HasDeployment(d, trip_id) THEN ToolReturn(FALSE, ErrNoVehicle, d)
    ELSE ToolReturn(TRUE, NoError,
            [d EXCEPT !.deployments = {x \in @ : x.trip_id # trip_id}])

get_trip_status(trip_id, d, beh) ==
    IF beh = "fault" THEN ToolReturn(FALSE, ErrDbFault, d)
    ELSE IF trip_id \notin TripIds THEN ToolReturn(FALSE, ErrTripNotFound, d)
    ELSE ToolReturn(TRUE, NoError, d)

\* path_id: the path_name parameter; the paths have the ids of TripIds
create_route(path_id, d, beh) ==
    IF beh = "fault" THEN ToolReturn(FALSE, ErrDbFault, d)
    ELSE IF path_id \notin TripIds THEN ToolReturn(FALSE, ErrPathNotFound, d)
    ELSE IF beh = "fault_after"
         THEN ToolReturn(FALSE, ErrDbFault, [d EXCEPT !.routes = @ + 1])
         ELSE ToolReturn(TRUE, NoError, [d EXCEPT !.routes = @ + 1])

\* a wrapped function whose outcome on each call is chosen by the caller of
\* retry_with_backoff: "ok", "fail" (success = False) or "raise"
stub_tool(d, beh) ==
    IF beh = "raise" THEN ToolRaise(ErrDbFault, d)
    ELSE ToolReturn(beh = "ok", IF beh = "ok" THEN NoError ELSE ErrDbFault, d)

ToolNames ==
    {"remove_vehicle_from_trip", "remove_vehicle", "get_trip_status", "no_such_tool"}

\* TOOL_REGISTRY.get(tool_name): the function a name resolves to, or NULL
TOOL_REGISTRY(tool_name) ==
    CASE tool_name \in {"remove_vehicle", "remove_vehicle_from_trip"} ->
            "remove_vehicle_from_trip"
      [] tool_name = "get_trip_status" -> "get_trip_status"
      [] tool_name = "create_route" -> "create_route"
      [] OTHER -> NULL

\* names that have a ToolMetadata entry
ToolMetadataNames == {"get_trip_status", "remove_vehicle_from_trip", "create_route"}

\* TOOL_METADATA_REGISTRY[tool_name].requires_consequence_check
TOOL_METADATA_REGISTRY(tool_name) == tool_name = "remove_vehicle_from_trip"

\* func(**kwargs): a call that lacks the required trip_id raises TypeError
\* before the function body runs
CallTool(func, trip_id, d, beh) ==
    CASE func = "stub_tool" -> stub_tool(d, beh)
      [] func # "stub_tool" /\ trip_id \in {NoId, CollidingParams} ->
            ToolRaise(ErrTypeError, d)
      [] func = "remove_vehicle_from_trip" /\ trip_id \notin {NoId, CollidingParams} ->
            remove_vehicle_from_trip(trip_id, d, beh)
      [] func = "create_route" /\ trip_id \notin {NoId, CollidingParams} ->
            create_route(trip_id, d, beh)
      [] OTHER -> get_trip_status(trip_id, d, beh)

----------------------------------------------------------------------------
(* retry_with_backoff *)

RetryResult(ok, hasResult, err, attempts, calls, mutated, d) ==
    [success |-> ok, result |-> hasResult, error |-> err, attempts |-> attempts,
     calls |-> calls, mutations |-> mutated, db |-> d]

\* the while loop: attempts is the loop counter, calls counts the invocations
\* of func actually made, mutations the calls that changed the data store
RECURSIVE RetryLoop(_, _, _, _, _, _, _, _)
RetryLoop(func, trip_id, d, behs, max_attempts, attempts, calls, mutated) ==
    IF attempts < max_attempts
    THEN LET a == attempts + 1
             r == CallTool(func, trip_id, d, behs[a])
             c == calls + 1
             m == IF r.db # d THEN mutated + 1 ELSE mutated
         IN  IF r.raised
             THEN IF a < max_attempts
                  THEN RetryLoop(func, trip_id, r.db, behs, max_attempts, a, c, m)
                  ELSE RetryResult(FALSE, "NULL", ErrRaisedAfter(r.error), a, c, m, r.db)
             ELSE IF ~r.success
                  THEN IF a < max_attempts
                       THEN RetryLoop(func, trip_id, r.db, behs, max_attempts, a, c, m)
                       ELSE RetryResult(FALSE, "failure", ErrFailedAfter(r.error), a, c, m, r.db)
                  ELSE RetryResult(TRUE, "success", NoError, a, c, m, r.db)
    ELSE RetryResult(FALSE, "NULL", <<"unexpected", "error">>, attempts, calls, mutated, d)

\* variant: max_attempts read as the number of retries after a first call
retry_with_extra_call(func, trip_id, d, behs, max_attempts) ==
    RetryLoop(func, trip_id, d,
              [i \in 1..(max_attempts + 1) |->
                    behs[IF i > max_attempts THEN max_attempts ELSE i]],
              max_attempts + 1, 0, 0, 0)

retry_with_backoff(func, trip_id, d, behs, max_attempts) ==
    RetryLoop(func, trip_id, d, behs, max_attempts, 0, 0, 0)


----------------------------------------------------------------------------
(* AgentState *)

Nodes == {"preprocess_input", "classify_intent", "check_consequences",
          "request_confirmation", "execute_action", "format_response"}

\* create_initial_state: the fields it does not set are missing (NULL, NoId, ...)
create_initial_state(user_input) ==
    [user_input |-> user_input,
     processed_input |-> NULL,
     intent |-> NULL,
     action_type |-> NULL,
     ent_trip_id |-> NoId,
     requires_consequence_check |-> FALSE,
     consequences |-> NULL,
     risk_level |-> NULL,
     requires_confirmation |-> FALSE,
     confirmation_message |-> NoMsg,
     user_confirmed |-> FALSE,
     tool_name |-> NULL,
     trip_id |-> NoId,
     route_id |-> NoId,
     tool_results |-> NULL,
     execution_success |-> "false",
     execution_error |-> NoError,
     execution_attempts |-> 0,
     response |-> NoMsg,
     response_type |-> NULL,
     error |-> NoError,
     error_node |-> NULL]

\* the dict run_movi_agent returns: the fields of the final state it copies.
\* user_input, requires_consequence_check, execution_error,
\* execution_attempts and error_node are not part of it.
ResponseOf(st) ==
    [st EXCEPT !.response_type = IF st.response_type = NULL THEN "info" ELSE @,
               !.user_input = NULL,
               !.requires_consequence_check = FALSE,
               !.execution_error = NoError,
               !.execution_attempts = 0,
               !.error_node = NULL]

NoPending == [create_initial_state(NULL) EXCEPT !.execution_success = NULL]

\* variant: the graph is invoked on a confirmed state whatever the caller passed
InitialStateAlwaysConfirmed(user_input, user_confirmed, preserved_state) ==
    IF user_confirmed /\ preserved_state # NoPending
    THEN [preserved_state EXCEPT !.user_confirmed = TRUE, !.requires_confirmation = FALSE]
    ELSE [create_initial_state(user_input) EXCEPT !.user_confirmed = TRUE]

\* run_movi_agent, lines 247-283: the state the graph is invoked on
InitialStateOf(user_input, user_confirmed, preserved_state) ==
    IF user_confirmed
    THEN IF preserved_state # NoPending
         THEN [preserved_state EXCEPT !.user_confirmed = TRUE,
                                      !.requires_confirmation = FALSE]
         ELSE [create_initial_state(user_input) EXCEPT !.user_confirmed = TRUE]
    ELSE create_initial_state(user_input)

----------------------------------------------------------------------------
(* Node 1: preprocess_input_node.  multimodal: the request carries an image,
   audio or video; gemini_ok: the multimodal service answers.  Every path
   that processes the input stores a processed_input record and clears error;
   the later nodes only test that the record is there, so one value stands
   for the three records (text, multimodal, degraded) *)

preprocess_input_node(st, multimodal, gemini_ok) ==
    IF st.user_confirmed /\ st.processed_input # NULL
    THEN st
    ELSE [st EXCEPT !.processed_input = "processed", !.error = NoError]

----------------------------------------------------------------------------
(* Node 2: classify_intent_node.  out: what the model call produced *)

Intents == {"remove_vehicle", "delete_trip", "deactivate_route", "get_trip_status"}
ActionTypes == {"read", "delete"}

\* the parsed classifications; fields no code reads for the classification at
\* hand are left missing
Classifications ==
    {c \in [intent : Intents, action_type : ActionTypes,
            tool_name : ToolNames \cup {NULL},
            requires_consequence_check : BOOLEAN,
            trip_id : {NoId, UnknownName, CollidingParams} \cup TripIds \cup {UnknownTrip},
            ent_trip_id : {NoId, 1},
            route_id : {NoId, UnknownRoute} \cup RouteIds] :
        /\ c.trip_id \notin {NoId, CollidingParams} => c.ent_trip_id = NoId
        /\ c.intent # "deactivate_route" => c.route_id = NoId}

ClassifierOutputs ==
    {[kind |-> "ok", c |-> c] : c \in Classifications}
    \cup {[kind |-> k, c |-> CHOOSE c \in Classifications : TRUE] : k \in {"bad_json", "fault"}}

\* variant: the model's value is kept
RequiresCheckFromModel(tool_name, model_value) == model_value

\* lines 103-107: the static table wins over the model's value
RequiresCheck(tool_name, model_value) ==
    IF tool_name # NULL /\ tool_name \in ToolMetadataNames
    THEN TOOL_METADATA_REGISTRY(tool_name)
    ELSE model_value

classify_intent_node(st, out) ==
    CASE out.kind = "ok" ->
            [st EXCEPT !.intent = out.c.intent,
                       !.action_type = out.c.action_type,
                       !.ent_trip_id = out.c.ent_trip_id,
                       !.requires_consequence_check =
                            RequiresCheck(out.c.tool_name, out.c.requires_consequence_check),
                       !.tool_name = out.c.tool_name,
                       !.trip_id = out.c.trip_id,
                       !.route_id = out.c.route_id,
                       !.error = NoError]
      [] out.kind = "bad_json" ->
            [st EXCEPT !.error = ErrJson, !.error_node = "classify_intent_node"]
      [] OTHER ->
            [st EXCEPT !.error = ErrClassification, !.error_node = "classify_intent_node"]


----------------------------------------------------------------------------
(* ConsequenceAnalyzer: consequence_tools.py.  Each returns [success, risk_level, error] *)

ConsequenceOk(risk) == [success |-> TRUE, risk_level |-> risk, error |-> NoError]
ConsequenceError(err) == [success |-> FALSE, risk_level |-> NULL, error |-> err]

\* variant: bookings tested before the deployment
check_remove_vehicle_bookings_first(trip_id, d) ==
    IF trip_id \notin TripIds THEN ConsequenceError(ErrTripNotFound)
    ELSE IF d.booking[trip_id] > 0 THEN ConsequenceOk("high")
    ELSE IF ~HasDeployment(d, trip_id) THEN ConsequenceOk("none")
    ELSE ConsequenceOk("low")

check_remove_vehicle_consequences(trip_id, d) ==
    IF trip_id \notin TripIds THEN ConsequenceError(ErrTripNotFound)
    ELSE IF ~HasDeployment(d, trip_id) THEN ConsequenceOk("none")
    ELSE IF d.booking[trip_id] > 0 THEN ConsequenceOk("high")
    ELSE ConsequenceOk("low")

check_delete_trip_consequences(trip_id, d) ==
    IF trip_id \notin TripIds THEN ConsequenceError(ErrTripNotFound)
    ELSE IF d.booking[trip_id] > 0 THEN ConsequenceOk("high")
    ELSE ConsequenceOk("low")

\* the trips selected are those of the route; that the route exists is not
\* looked up
check_deactivate_route_consequences(route_id, d) ==
    IF \E t \in TripIds : route_id \in RouteIds /\ d.booking[t] > 0
    THEN ConsequenceOk("high")
    ELSE ConsequenceOk("low")

\* query_fault: a data-store query inside the checker raises
get_consequences_for_action(action_type, entity_id, d, query_fault) ==
    IF query_fault THEN ConsequenceError(ErrDbFault)
    ELSE CASE action_type = "remove_vehicle" -> check_remove_vehicle_consequences(entity_id, d)
           [] action_type = "delete_trip" -> check_delete_trip_consequences(entity_id, d)
           [] action_type = "deactivate_route" ->
                check_deactivate_route_consequences(entity_id, d)
           [] OTHER -> ConsequenceOk("none")

\* _resolve_trip_id / _resolve_route_id: an integer is returned as it is, a
\* display name is looked up by exact match
resolve_id(identifier) == IF identifier = UnknownName THEN NoId ELSE identifier

----------------------------------------------------------------------------
(* Node 3: check_consequences_node *)

\* variant: confirmation asked for the wrong level
ConfirmationNeededForLow(risk_level) == risk_level = "low"

\* requires_confirmation = (risk_level == "high"), line 241
ConfirmationNeeded(risk_level) == risk_level = "high"

\* variant: a failed analysis reported as high risk, confirmation not required
ConsequenceFailureHighRisk(st, err) ==
    [st EXCEPT !.consequences = NULL, !.risk_level = "high",
               !.requires_confirmation = FALSE,
               !.error = err, !.error_node = "check_consequences_node"]

ConsequenceFailure(st, err) ==
    [st EXCEPT !.consequences = NULL, !.risk_level = "low",
               !.requires_confirmation = FALSE,
               !.error = err, !.error_node = "check_consequences_node"]

\* fault: "none", "session" (get_db or the id lookup raises) or "query"
check_consequences_node(st, d, fault) ==
    IF ~st.requires_consequence_check
    THEN [st EXCEPT !.consequences = NULL, !.risk_level = "none",
                    !.requires_confirmation = FALSE, !.error = NoError]
    ELSE LET trip_entity == IF st.trip_id \notin {NoId, CollidingParams}
                            THEN st.trip_id ELSE st.ent_trip_id
             kind == CASE st.intent = "remove_vehicle" \/ st.action_type = "delete" ->
                            "remove_vehicle"
                       [] st.intent = "delete_trip" -> "delete_trip"
                       [] st.intent = "deactivate_route" -> "deactivate_route"
                       [] OTHER -> NULL
             entity_id == IF kind = "deactivate_route" THEN st.route_id ELSE trip_entity
             result == get_consequences_for_action(kind, resolve_id(entity_id), d,
                                                   fault = "query")
         IN  IF kind = NULL THEN ConsequenceFailure(st, ErrNotImplemented)
             ELSE IF entity_id = NoId THEN ConsequenceFailure(st, ErrMissingEntity)
             ELSE IF fault = "session" THEN ConsequenceFailure(st, ErrCheckFailed)
             ELSE IF resolve_id(entity_id) = NoId THEN ConsequenceFailure(st, ErrUnresolved)
             ELSE IF ~result.success THEN ConsequenceFailure(st, result.error)
             ELSE [st EXCEPT !.consequences = kind,
                             !.risk_level = result.risk_level,
                             !.requires_confirmation = ConfirmationNeeded(result.risk_level),
                             !.error = NoError]

----------------------------------------------------------------------------
(* Node 4: request_confirmation_node.  reply: [fault, len], the model call's
   outcome and the length of its text after the markdown clean-up *)

ReplyLens == {0, 5, 150}
Replies == [fault : BOOLEAN, len : ReplyLens]

\* variant: a fallback without text
FallbackConfirmationEmpty(st) == [src |-> "fallback", len |-> 0]

\* _generate_fallback_confirmation: the fixed lines of the template (the
\* intent name and the consequence lines only make it longer)
FallbackConfirmation(st) ==
    [src |-> "fallback",
     len |-> 33 + (IF st.risk_level = "low" THEN 3 ELSE 4) + 5 + 26 + 32 + 4]

\* variant: the stage confirms on the user's behalf
ConfirmationUpdateConfirming(st, message) ==
    [st EXCEPT !.confirmation_message = message,
               !.requires_confirmation = TRUE,
               !.user_confirmed = TRUE,
               !.error = NoError]

\* the update both the model path and the fallback path return
ConfirmationUpdate(st, message) ==
    [st EXCEPT !.confirmation_message = message,
               !.requires_confirmation = TRUE,
               !.user_confirmed = FALSE,
               !.error = NoError]

\* variant: the model's text is used whatever its length
request_confirmation_unvalidated(st, reply) ==
    IF ~st.requires_confirmation
    THEN [st EXCEPT !.confirmation_message = NoMsg, !.requires_confirmation = FALSE,
                    !.user_confirmed = FALSE, !.error = NoError]
    ELSE IF reply.fault
         THEN ConfirmationUpdate(st, FallbackConfirmation(st))
         ELSE ConfirmationUpdate(st, [src |-> "model", len |-> reply.len])

request_confirmation_node(st, reply) ==
    IF ~st.requires_confirmation
    THEN [st EXCEPT !.confirmation_message = NoMsg, !.requires_confirmation = FALSE,
                    !.user_confirmed = FALSE, !.error = NoError]
    ELSE IF reply.fault \/ reply.len < 20
         THEN ConfirmationUpdate(st, FallbackConfirmation(st))
         ELSE ConfirmationUpdate(st, [src |-> "model", len |-> reply.len])

----------------------------------------------------------------------------
(* Node 5: execute_action_node.  Returns [st, db, calls]: the updated state,
   the data store after the call and the number of tool invocations made *)

\* max_attempts passed to retry_with_backoff
ExecuteMaxAttempts == 2

ExecBehaviours == [1..ExecuteMaxAttempts -> {"run", "fault", "fault_after"}]

ExecRefusal(st, execution_error, err) ==
    [st EXCEPT !.tool_results = NULL,
               !.execution_success = "false",
               !.execution_error = execution_error,
               !.error = err,
               !.error_node = "execute_action_node",
               !.execution_attempts = 1]

\* variant: no guard
ExecutionNeverBlocked(st) == FALSE

\* lines 60-62: the guard of the safety invariant
ExecutionBlocked(st) == st.requires_confirmation /\ ~st.user_confirmed

execute_action_node(st, d, behs, session_ok) ==
    IF ExecutionBlocked(st)
    THEN [st |-> ExecRefusal(st, ErrConfirmationNotReceived, ErrConfirmationRequired),
          db |-> d, calls |-> 0]
    ELSE IF st.tool_name = NULL
    THEN [st |-> ExecRefusal(st, ErrNoToolSpecified, ErrMissingToolName), db |-> d, calls |-> 0]
    ELSE IF TOOL_REGISTRY(st.tool_name) = NULL
    THEN [st |-> ExecRefusal(st, ErrToolNotInRegistry, ErrUnknownTool), db |-> d, calls |-> 0]
    ELSE IF ~session_ok
    THEN [st |-> ExecRefusal(st, ErrNodeFailed, ErrDbFault), db |-> d, calls |-> 0]
    ELSE IF st.trip_id = CollidingParams
    THEN [st |-> ExecRefusal(st, ErrParameterError(ErrMultipleValues),
                             ErrParameterMismatch(ErrMultipleValues)),
          db |-> d, calls |-> 0]
    ELSE LET r == retry_with_backoff(TOOL_REGISTRY(st.tool_name), st.trip_id, d, behs,
                                     ExecuteMaxAttempts)
         IN  IF r.success
             THEN [st |-> [st EXCEPT !.tool_results = r.result,
                                     !.execution_success = "true",
                                     !.execution_error = NoError,
                                     !.error = NoError,
                                     !.execution_attempts = r.attempts],
                   db |-> r.db, calls |-> r.calls]
             ELSE [st |-> [st EXCEPT !.tool_results = r.result,
                                     !.execution_success = "false",
                                     !.execution_error = r.error,
                                     !.error = r.error,
                                     !.error_node = "execute_action_node",
                                     !.execution_attempts = r.attempts],
                   db |-> r.db, calls |-> r.calls]

----------------------------------------------------------------------------
(* Node 6: format_response_node.  reply: the model call's outcome, as in node 4 *)

\* "not found" in error_lower
ContainsNotFound(e) == \E i \in 1..(Len(e) - 1) : e[i] = "not" /\ e[i + 1] = "found"

\* _format_error_response: the pattern that selects the message
ErrorPattern(e) ==
    CASE Contains(e, "confirmation") -> "needs_confirmation"
      [] ~Contains(e, "confirmation") /\ ContainsNotFound(e) -> "not_found"
      [] OTHER ->
            IF Contains(e, "parameter") \/ Contains(e, "missing") THEN "more_information"
            ELSE IF Contains(e, "database") THEN "data_access"
            ELSE IF Contains(e, "authentication") \/ Contains(e, "api") THEN "service"
            ELSE "generic"

ErrorMessageLen(pattern, e) ==
    CASE pattern = "needs_confirmation" -> 86
      [] pattern = "not_found" -> 80
      [] pattern = "more_information" -> 81
      [] pattern = "data_access" -> 78
      [] pattern = "service" -> 63
      [] OTHER -> 24 + Len(e)

format_error_response(st, e) ==
    [st EXCEPT !.response = [src |-> ErrorPattern(e), len |-> ErrorMessageLen(ErrorPattern(e), e)],
               !.response_type = "error",
               !.error = e]

ErrUnknown == <<"unknown", "error">>

\* variant: a failed execution is reported before a pending confirmation
format_response_failure_first(st, reply) ==
    IF st.error # NoError THEN format_error_response(st, st.error)
    ELSE IF st.execution_success = "false"
    THEN format_error_response(st,
            IF st.execution_error = NoError THEN ErrUnknown ELSE st.execution_error)
    ELSE IF st.requires_confirmation /\ ~st.user_confirmed
    THEN [st EXCEPT !.response = st.confirmation_message,
                    !.response_type = "confirmation",
                    !.error = NoError]
    ELSE IF st.tool_results # NULL
    THEN [st EXCEPT !.response = [src |-> "fallback", len |-> 30],
                    !.response_type = "success",
                    !.error = NoError]
    ELSE [st EXCEPT !.response = [src |-> "info", len |-> 57],
                    !.response_type = "info",
                    !.error = NoError]

format_response_node(st, reply) ==
    IF st.error # NoError THEN format_error_response(st, st.error)
    ELSE IF st.requires_confirmation /\ ~st.user_confirmed
    THEN [st EXCEPT !.response = st.confirmation_message,
                    !.response_type = "confirmation",
                    !.error = NoError]
    ELSE IF st.execution_success = "false"
    THEN format_error_response(st,
            IF st.execution_error = NoError THEN ErrUnknown ELSE st.execution_error)
    ELSE IF st.tool_results # NULL
    THEN [st EXCEPT !.response = IF reply.fault \/ reply.len < 10
                                 THEN [src |-> "fallback", len |-> 30]
                                 ELSE [src |-> "model", len |-> reply.len],
                    !.response_type = "success",
                    !.error = NoError]
    ELSE [st EXCEPT !.response = [src |-> "info", len |-> 57],
                    !.response_type = "info",
                    !.error = NoError]

----------------------------------------------------------------------------
(* Router: edges.py *)

route_after_classify(st) ==
    IF st.error # NoError THEN "format_response"
    ELSE IF st.requires_consequence_check THEN "check_consequences"
    ELSE "execute_action"

\* variant: requires_confirmation tested before user_confirmed
route_after_consequences_confirmation_first(st) ==
    IF st.error # NoError THEN "format_response"
    ELSE IF st.requires_confirmation THEN "request_confirmation"
    ELSE "execute_action"

route_after_consequences(st) ==
    IF st.error # NoError THEN "format_response"
    ELSE IF st.user_confirmed THEN "execute_action"
    ELSE IF st.requires_confirmation THEN "request_confirmation"
    ELSE "execute_action"

route_after_confirmation(st) ==
    IF st.error # NoError THEN "format_response"
    ELSE IF st.user_confirmed THEN "execute_action"
    ELSE "format_response"

\* variant: an executed action is sent to the confirmation stage
route_after_execute_to_confirmation(st) == "request_confirmation"

route_after_execute(st) == "format_response"

----------------------------------------------------------------------------
(* The pipeline: run_movi_agent driving the compiled graph *)

IdleState == create_initial_state(NULL)
NoUnit == [phase |-> "none"]
\* what Execute acts on
Classification(st) == [intent |-> st.intent, tool_name |-> st.tool_name, trip_id |-> st.trip_id]

NoRun ==
    [user_input |-> NULL, started_confirmed |-> FALSE, resumed |-> FALSE,
     path |-> <<>>, tool_calls |-> 0, cc_risk |-> NULL, booked_removed |-> FALSE,
     model_value |-> FALSE]

Init ==
    /\ db \in DbStates
    /\ state = IdleState
    /\ node = "idle"
    /\ run = NoRun
    /\ pending = NoPending
    /\ explained = {}
    /\ unit = NoUnit

\* a caller invokes run_movi_agent; with use_pending it passes the response of
\* the run that asked for confirmation as preserved_state
StartRun(user_input, user_confirmed, use_pending) ==
    /\ node = "idle"
    /\ use_pending => user_confirmed /\ pending # NoPending
    /\ LET preserved_state == IF use_pending THEN pending ELSE NoPending
       IN  /\ state' = InitialStateOf(user_input, user_confirmed, preserved_state)
           /\ run' = [NoRun EXCEPT !.user_input = user_input,
                                   !.started_confirmed = user_confirmed,
                                   !.resumed = use_pending]
    /\ pending' = NoPending
    /\ node' = "preprocess_input"
    /\ UNCHANGED <<db, explained, unit>>

Visit(n) == [run EXCEPT !.path = Append(@, n)]

Preprocess ==
    /\ node = "preprocess_input"
    /\ \E multimodal \in BOOLEAN, gemini_ok \in BOOLEAN :
            state' = preprocess_input_node(state, multimodal, gemini_ok)
    /\ run' = Visit(node)
    /\ node' = "classify_intent"
    /\ UNCHANGED <<db, pending, explained, unit>>

Classify ==
    /\ node = "classify_intent"
    /\ \E out \in ClassifierOutputs :
            /\ state' = classify_intent_node(state, out)
            /\ run' = [Visit(node) EXCEPT !.model_value =
                            out.kind = "ok" /\ out.c.requires_consequence_check]
    /\ node' = route_after_classify(state')
    /\ UNCHANGED <<db, pending, explained, unit>>

CheckConsequences ==
    /\ node = "check_consequences"
    /\ \E fault \in {"none", "session", "query"} :
            state' = check_consequences_node(state, db, fault)
    /\ run' = [Visit(node) EXCEPT !.cc_risk = state'.risk_level]
    /\ node' = route_after_consequences(state')
    /\ UNCHANGED <<db, pending, explained, unit>>

RequestConfirmation ==
    /\ node = "request_confirmation"
    /\ \E reply \in Replies : state' = request_confirmation_node(state, reply)
    /\ run' = Visit(node)
    /\ node' = route_after_confirmation(state')
    /\ UNCHANGED <<db, pending, explained, unit>>

\* a deployment of a trip with bookings is in d and no longer in e
BookedDeploymentRemoved(d, e) ==
    \E x \in d.deployments : x \notin e.deployments /\ d.booking[x.trip_id] > 0

Execute ==
    /\ node = "execute_action"
    /\ \E behs \in ExecBehaviours, session_ok \in BOOLEAN :
         LET r == execute_action_node(state, db, behs, session_ok)
         IN  /\ state' = r.st
             /\ db' = r.db
             /\ run' = [Visit(node) EXCEPT
                            !.tool_calls = @ + r.calls,
                            !.booked_removed = @ \/ BookedDeploymentRemoved(db, r.db)]
    /\ node' = route_after_execute(state')
    /\ UNCHANGED <<pending, explained, unit>>

FormatResponse ==
    /\ node = "format_response"
    /\ \E reply \in Replies : state' = format_response_node(state, reply)
    /\ run' = Visit(node)
    /\ node' = "END"
    /\ UNCHANGED <<db, pending, explained, unit>>

\* run_movi_agent returns; the caller keeps a response that asks for confirmation
Return ==
    /\ node = "END"
    /\ pending' = IF state.response_type = "confirmation" THEN ResponseOf(state) ELSE NoPending
    /\ explained' = IF state.response_type = "confirmation" /\ state.confirmation_message.len > 0
                    THEN explained \cup {run.user_input} ELSE explained
    /\ state' = IdleState
    /\ run' = NoRun
    /\ node' = "idle"
    /\ UNCHANGED <<db, unit>>

Next ==
    \/ \E u \in UserInputs, c \in BOOLEAN, p \in BOOLEAN : StartRun(u, c, p)
    \/ Preprocess
    \/ Classify
    \/ CheckConsequences
    \/ RequestConfirmation
    \/ Execute
    \/ FormatResponse
    \/ Return

Spec == Init /\ [][Next]_vars

----------------------------------------------------------------------------
(* Direct calls of one node on an arbitrary state, as the node tests make them *)

\* tool names of hand-built states: those of the classifier and a create tool
DirectToolNames == ToolNames \cup {NULL, "create_route"}

DirectStates ==
    {[IdleState EXCEPT !.user_input = "remove vehicle from trip",
                       !.processed_input = "processed",
                       !.intent = c.intent,
                       !.action_type = c.action_type,
                       !.tool_name = f.tool_name,
                       !.trip_id = c.trip_id,
                       !.ent_trip_id = c.ent_trip_id,
                       !.route_id = c.route_id,
                       !.requires_consequence_check = c.requires_consequence_check,
                       !.requires_confirmation = f.requires_confirmation,
                       !.user_confirmed = f.user_confirmed,
                       !.risk_level = f.risk_level,
                       !.tool_results = f.tool_results] :
        c \in Classifications,
        f \in [tool_name : DirectToolNames,
               requires_confirmation : BOOLEAN, user_confirmed : BOOLEAN,
               risk_level : {NULL, "high"}, tool_results : {NULL, "success"}]}

\* hand-built states for format_response_node
FormatStates ==
    {[IdleState EXCEPT !.user_input = "remove vehicle from trip",
                       !.intent = "remove_vehicle",
                       !.tool_name = "remove_vehicle_from_trip",
                       !.error = f.error,
                       !.requires_confirmation = f.requires_confirmation,
                       !.user_confirmed = f.user_confirmed,
                       !.confirmation_message = f.confirmation_message,
                       !.execution_success = f.execution_success,
                       !.execution_error = f.execution_error,
                       !.tool_results = f.tool_results] :
        f \in [error : {NoError, ErrDbFault, ErrConfirmationRequired},
               requires_confirmation : BOOLEAN, user_confirmed : BOOLEAN,
               confirmation_message : {NoMsg, [src |-> "model", len |-> 150]},
               execution_success : {NULL, "true", "false"},
               execution_error : {NoError, ErrTripNotFound},
               tool_results : {NULL, "success", "failure"}]}

InitDirect ==
    /\ db \in DbStates
    /\ \/ state \in DirectStates /\ node \in {"check_consequences", "execute_action"}
       \/ state \in FormatStates /\ node = "format_response"
    /\ run = NoRun
    /\ pending = NoPending
    /\ explained = {}
    /\ unit = [phase |-> "direct"]

DirectCheckConsequences == run.path = <<>> /\ CheckConsequences
DirectExecute == run.path = <<>> /\ Execute
DirectFormatResponse == run.path = <<>> /\ FormatResponse

NextDirect == DirectCheckConsequences \/ DirectExecute \/ DirectFormatResponse

SpecDirect == InitDirect /\ [][NextDirect]_vars

----------------------------------------------------------------------------
(* Direct calls of one router function on a hand-built state, as the edge
   tests make them.  unit.router is the function called, unit.next what it
   returned (NULL before the call) *)

Routers == {"route_after_classify", "route_after_consequences",
            "route_after_confirmation", "route_after_execute"}

\* the fields the routers read, in every combination
RouterStates ==
    {[IdleState EXCEPT !.error = f.error,
                       !.requires_consequence_check = f.requires_consequence_check,
                       !.requires_confirmation = f.requires_confirmation,
                       !.user_confirmed = f.user_confirmed] :
        f \in [error : {NoError, ErrDbFault, ErrConfirmationRequired},
               requires_consequence_check : BOOLEAN,
               requires_confirmation : BOOLEAN,
               user_confirmed : BOOLEAN]}

InitRouter ==
    /\ db \in {d \in DbStates : d.deployments = {}}
    /\ state \in RouterStates
    /\ node = "idle"
    /\ run = NoRun
    /\ pending = NoPending
    /\ explained = {}
    /\ unit \in {[phase |-> "route", router |-> r, next |-> NULL] : r \in Routers}

\* the call returns next
Routed(next) ==
    /\ unit' = [unit EXCEPT !.next = next]
    /\ UNCHANGED <<db, state, node, run, pending, explained>>

RouteAfterClassify ==
    /\ unit.router = "route_after_classify" /\ unit.next = NULL
    /\ Routed(route_after_classify(state))

RouteAfterConsequences ==
    /\ unit.router = "route_after_consequences" /\ unit.next = NULL
    /\ Routed(route_after_consequences(state))

RouteAfterConfirmation ==
    /\ unit.router = "route_after_confirmation" /\ unit.next = NULL
    /\ Routed(route_after_confirmation(state))

RouteAfterExecute ==
    /\ unit.router = "route_after_execute" /\ unit.next = NULL
    /\ Routed(route_after_execute(state))

NextRouter ==
    \/ RouteAfterClassify
    \/ RouteAfterConsequences
    \/ RouteAfterConfirmation
    \/ RouteAfterExecute

SpecRouter == InitRouter /\ [][NextRouter]_vars

----------------------------------------------------------------------------
(* Direct calls of retry_with_backoff on a wrapped function whose outcome on
   each call the caller chooses *)

StubBehaviours(max_attempts) == [1..max_attempts -> {"ok", "fail", "raise"}]

InitRetry ==
    /\ db \in {d \in DbStates : d.deployments = {}}
    /\ state = IdleState
    /\ node = "idle"
    /\ run = NoRun
    /\ pending = NoPending
    /\ explained = {}
    /\ unit \in {[phase |-> "call", max_attempts |-> m] : m \in 1..MaxAttemptsBound}

RetryCall ==
    /\ unit.phase = "call"
    /\ \E behs \in StubBehaviours(unit.max_attempts) :
            unit' = [phase |-> "done", max_attempts |-> unit.max_attempts, behs |-> behs,
                     r |-> retry_with_backoff("stub_tool", NoId, db, behs, unit.max_attempts)]
    /\ UNCHANGED <<db, state, node, run, pending, explained>>

NextRetry == RetryCall

SpecRetry == InitRetry /\ [][NextRetry]_vars

----------------------------------------------------------------------------
(* Concurrent tool calls: assign_vehicle_to_trip and remove_vehicle_from_trip
   called by independent runs, each on its own session.  A call is a sequence
   of awaited data-store statements; another caller's statements can run
   between any two of them, and each statement sees what has been committed *)

Callers == 1..NumCallers

IdleCaller(calls) == [pc |-> "idle", trip_id |-> NoId, vehicle_id |-> NoId, calls |-> calls]

InitTools ==
    /\ db \in DbStates
    /\ state = IdleState
    /\ node = "idle"
    /\ run = NoRun
    /\ pending = NoPending
    /\ explained = {}
    /\ unit = [phase |-> "tools", procs |-> [p \in Callers |-> IdleCaller(0)]]

\* the caller's local state changes, the data store becomes d
CallerStep(p, local, d) ==
    /\ unit' = [unit EXCEPT !.procs[p] = local]
    /\ db' = d
    /\ UNCHANGED <<state, node, run, pending, explained>>

Returned(p) == IdleCaller(unit.procs[p].calls)
At(p, pc) == [unit.procs[p] EXCEPT !.pc = pc]

\* autoincrement primary key
NextDeploymentId(d) ==
    IF d.deployments = {} THEN 1
    ELSE 1 + CHOOSE m \in {x.deployment_id : x \in d.deployments} :
                 \A x \in d.deployments : x.deployment_id <= m

AssignCall(p) ==
    /\ unit.procs[p].pc = "idle"
    /\ unit.procs[p].calls < MaxCallsPerCaller
    /\ \E t \in TripIds, v \in VehicleIds :
            CallerStep(p, [pc |-> "assign_check_vehicle", trip_id |-> t, vehicle_id |-> v,
                           calls |-> unit.procs[p].calls + 1], db)

\* select(Deployment).where(Deployment.vehicle_id == vehicle.vehicle_id)
AssignCheckVehicle(p) ==
    /\ unit.procs[p].pc = "assign_check_vehicle"
    /\ IF \E x \in db.deployments : x.vehicle_id = unit.procs[p].vehicle_id
       THEN CallerStep(p, Returned(p), db)
       ELSE CallerStep(p, At(p, "assign_check_trip"), db)

\* select(Deployment).where(Deployment.trip_id == trip_id)
AssignCheckTrip(p) ==
    /\ unit.procs[p].pc = "assign_check_trip"
    /\ IF HasDeployment(db, unit.procs[p].trip_id)
       THEN CallerStep(p, Returned(p), db)
       ELSE CallerStep(p, At(p, "assign_insert"), db)

\* db.add(deployment); db.commit()
AssignInsert(p) ==
    /\ unit.procs[p].pc = "assign_insert"
    /\ CallerStep(p, Returned(p),
            [db EXCEPT !.deployments = @ \cup
                {[trip_id |-> unit.procs[p].trip_id,
                  vehicle_id |-> unit.procs[p].vehicle_id,
                  deployment_id |-> NextDeploymentId(db)]}])

RemoveCall(p) ==
    /\ unit.procs[p].pc = "idle"
    /\ unit.procs[p].calls < MaxCallsPerCaller
    /\ \E t \in TripIds :
            CallerStep(p, [pc |-> "remove_read", trip_id |-> t, vehicle_id |-> NoId,
                           calls |-> unit.procs[p].calls + 1], db)

\* select(Deployment, Vehicle) ... where(Deployment.trip_id == trip_id)
RemoveRead(p) ==
    /\ unit.procs[p].pc = "remove_read"
    /\ IF HasDeployment(db, unit.procs[p].trip_id)
       THEN CallerStep(p, At(p, "remove_delete"), db)
       ELSE CallerStep(p, Returned(p), db)

\* delete(Deployment).where(Deployment.trip_id == trip_id); db.commit()
RemoveDelete(p) ==
    /\ unit.procs[p].pc = "remove_delete"
    /\ CallerStep(p, Returned(p),
            [db EXCEPT !.deployments = {x \in @ : x.trip_id # unit.procs[p].trip_id}])

NextTools ==
    \E p \in Callers :
        \/ AssignCall(p)
        \/ AssignCheckVehicle(p)
        \/ AssignCheckTrip(p)
        \/ AssignInsert(p)
        \/ RemoveCall(p)
        \/ RemoveRead(p)
        \/ RemoveDelete(p)

SpecTools == InitTools /\ [][NextTools]_vars

----------------------------------------------------------------------------
(* Concurrent replays of one confirmed remove-vehicle request: independent
   runs started with user_confirmed true for the same trip, each at its
   Execute stage.  unit.trip_id is the trip of the request; a run's
   execution_success is NULL until its Execute stage has returned *)

ReplayRun(pc, attempts, execution_success) ==
    [pc |-> pc, attempts |-> attempts, execution_success |-> execution_success]

InitReplay ==
    /\ db \in DbStates
    /\ state = IdleState
    /\ node = "idle"
    /\ run = NoRun
    /\ pending = NoPending
    /\ explained = {}
    /\ unit \in {[phase |-> "replay", trip_id |-> t,
                  procs |-> [p \in Callers |-> ReplayRun("execute", 0, NULL)]] :
                    t \in {t \in TripIds : HasDeployment(db, t)}}

ReplayStep(p, local, d) ==
    /\ unit' = [unit EXCEPT !.procs[p] = local]
    /\ db' = d
    /\ UNCHANGED <<state, node, run, pending, explained>>

\* execute_action_node: the guard passes (user_confirmed) and
\* retry_with_backoff makes the first call of the tool
ReplayExecute(p) ==
    /\ unit.procs[p].pc = "execute"
    /\ ReplayStep(p, ReplayRun("read", 1, NULL), db)

\* the tool has returned a failure: retry_with_backoff calls it again until
\* the attempts are used up
ReplayFailed(p) ==
    IF unit.procs[p].attempts < ExecuteMaxAttempts
    THEN ReplayRun("read", unit.procs[p].attempts + 1, NULL)
    ELSE ReplayRun("done", unit.procs[p].attempts, "false")

\* the tool's select of the trip's Deployment; without a row the tool returns
\* a failure
ReplayRead(p) ==
    /\ unit.procs[p].pc = "read"
    /\ IF HasDeployment(db, unit.trip_id)
       THEN ReplayStep(p, [unit.procs[p] EXCEPT !.pc = "delete"], db)
       ELSE ReplayStep(p, ReplayFailed(p), db)

\* delete(Deployment).where(Deployment.trip_id == trip_id) and commit; the
\* number of rows deleted is not looked at and the tool returns success.
\* fault: the statement raises (the store is locked by another writer), the
\* tool rolls back and returns a failure
ReplayDelete(p) ==
    /\ unit.procs[p].pc = "delete"
    /\ \E fault \in BOOLEAN :
          IF fault
          THEN ReplayStep(p, ReplayFailed(p), db)
          ELSE ReplayStep(p, ReplayRun("done", unit.procs[p].attempts, "true"),
                          [db EXCEPT !.deployments = {x \in @ : x.trip_id # unit.trip_id}])

NextReplay ==
    \E p \in Callers :
        \/ ReplayExecute(p)
        \/ ReplayRead(p)
        \/ ReplayDelete(p)

SpecReplay == InitReplay /\ [][NextReplay]_vars

----------------------------------------------------------------------------
(* Session persistence: send_message calling create_or_update_session after
   its pipeline run, for message turns of independent requests on one
   session_id.  unit.session is the stored AgentSession row (NoSession when
   there is none), unit.completed the turns whose send_message has returned.
   Turn <<p, k>> is the k-th message of caller p *)

NoSession == [exists |-> FALSE, conversation_history |-> <<>>]
IdleTurn(calls) == [pc |-> "idle", conversation_history |-> <<>>, calls |-> calls]

\* the two entries one turn adds
TurnEntries(turn) == <<[role |-> "user", turn |-> turn], [role |-> "agent", turn |-> turn]>>

InitSessions ==
    /\ db \in {d \in DbStates : d.deployments = {}}
    /\ state = IdleState
    /\ node = "idle"
    /\ run = NoRun
    /\ pending = NoPending
    /\ explained = {}
    /\ unit = [phase |-> "sessions", session |-> NoSession, completed |-> {},
               procs |-> [p \in Callers |-> IdleTurn(0)]]

TurnOf(p) == <<p, unit.procs[p].calls>>

\* the caller's local state, the stored row and the completed turns change
SessionStep(p, local, session, completed) ==
    /\ unit' = [unit EXCEPT !.procs[p] = local, !.session = session,
                            !.completed = completed]
    /\ UNCHANGED <<db, state, node, run, pending, explained>>

\* send_message: run_movi_agent has returned, the turn is to be persisted
SendMessage(p) ==
    /\ unit.procs[p].pc = "idle"
    /\ unit.procs[p].calls < MaxCallsPerCaller
    /\ SessionStep(p, [pc |-> "select", conversation_history |-> <<>>,
                       calls |-> unit.procs[p].calls + 1],
                   unit.session, unit.completed)

\* select(AgentSession).where(AgentSession.session_id == session_id)
SessionSelect(p) ==
    /\ unit.procs[p].pc = "select"
    /\ SessionStep(p, [unit.procs[p] EXCEPT
                            !.pc = IF unit.session.exists THEN "update" ELSE "insert",
                            !.conversation_history = unit.session.conversation_history],
                   unit.session, unit.completed)

\* the two appends to the list that was read, update(AgentSession).values(...)
\* and commit; send_message returns
SessionUpdate(p) ==
    /\ unit.procs[p].pc = "update"
    /\ SessionStep(p, IdleTurn(unit.procs[p].calls),
                   [unit.session EXCEPT !.conversation_history =
                        unit.procs[p].conversation_history \o TurnEntries(TurnOf(p))],
                   unit.completed \cup {TurnOf(p)})

\* db.add(AgentSession(...)) and commit.  session_id is the primary key: when
\* the row has been created meanwhile the commit raises, the service rolls
\* back and re-raises, and send_message logs a warning and returns
SessionInsert(p) ==
    /\ unit.procs[p].pc = "insert"
    /\ SessionStep(p, IdleTurn(unit.procs[p].calls),
                   IF unit.session.exists THEN unit.session
                   ELSE [exists |-> TRUE, conversation_history |-> TurnEntries(TurnOf(p))],
                   unit.completed \cup {TurnOf(p)})

NextSessions ==
    \E p \in Callers :
        \/ SendMessage(p)
        \/ SessionSelect(p)
        \/ SessionUpdate(p)
        \/ SessionInsert(p)

SpecSessions == InitSessions /\ [][NextSessions]_vars

IsPrefix(s, t) == Len(s) <= Len(t) /\ \A i \in 1..Len(s) : s[i] = t[i]

\* the history holds the turn's user entry followed by its agent entry
TurnStored(h, turn) ==
    \E i \in 1..(Len(h) - 1) : h[i] = TurnEntries(turn)[1] /\ h[i + 1] = TurnEntries(turn)[2]

----------------------------------------------------------------------------
(* Properties *)

Visited(n) == \E i \in 1..Len(run.path) : run.path[i] = n
LastVisited == IF run.path = <<>> THEN NULL ELSE run.path[Len(run.path)]

\* C1: in every run in which CheckConsequences yields risk_level "high",
\* requires_confirmation is true when CheckConsequences returns, and the run
\* ends with execution_success true only if the caller started it with
\* user_confirmed true.
C1_HighRiskNeedsCallerConfirmation ==
    /\ (LastVisited = "check_consequences" /\ run.cc_risk = "high")
            => state.requires_confirmation
    /\ (node = "END" /\ run.cc_risk = "high" /\ state.execution_success = "true")
            => run.started_confirmed

\* a run not started confirmed was rated high and ended asking for confirmation
C1_Witness ==
    /\ node = "END"
    /\ run.cc_risk = "high"
    /\ ~run.started_confirmed
    /\ state.requires_confirmation
    /\ state.execution_success # "true"

\* C2: Execute called on any state with requires_confirmation true and
\* user_confirmed false invokes no tool, leaves the data store as it is and
\* returns execution_success false, no tool_results, an execution_error
\* containing "confirmation" and a non-empty error.
C2_ExecuteRefusesUnconfirmed ==
    [][(node = "execute_action" /\ state.requires_confirmation /\ ~state.user_confirmed)
        => /\ run'.tool_calls = run.tool_calls
           /\ db' = db
           /\ state'.execution_success = "false"
           /\ state'.tool_results = NULL
           /\ Contains(state'.execution_error, "confirmation")
           /\ state'.error # NoError]_vars

\* Execute, called directly, has returned on an unconfirmed state that named
\* the removal tool and a trip with a deployment
C2_Witness ==
    /\ LastVisited = "execute_action"
    /\ state.requires_confirmation /\ ~state.user_confirmed
    /\ state.tool_name = "remove_vehicle_from_trip"
    /\ HasDeployment(db, state.trip_id)
    /\ state.tool_results = NULL
    /\ unit.phase = "direct"

\* C3: no run deletes the deployment of a trip with bookings unless the run
\* was started with user_confirmed true.
C3_BookedNeverMutatedUnconfirmed == run.booked_removed => run.started_confirmed

\* C4: on every return path of CheckConsequences the returned
\* requires_confirmation equals (returned risk_level = "high").
C4_ConfirmationIffHigh ==
    LastVisited = "check_consequences"
        => (state.requires_confirmation <=> state.risk_level = "high")

\* CheckConsequences, entered with a stale requires_confirmation = FALSE,
\* has returned high risk
C4_Witness ==
    /\ unit.phase = "direct"
    /\ LastVisited = "check_consequences"
    /\ state.risk_level = "high"
    /\ state.requires_confirmation

\* C5: when Classify parses a classification whose tool_name has an entry in
\* the ToolMetadata table, the requires_consequence_check it returns is the
\* entry's value; otherwise it is the model's value.
C5_StaticTableWins ==
    (LastVisited = "classify_intent" /\ state.error = NoError)
        => state.requires_consequence_check =
                IF state.tool_name \in ToolMetadataNames
                THEN TOOL_METADATA_REGISTRY(state.tool_name)
                ELSE run.model_value

\* the model said no check is needed for the removal tool and Classify
\* returned that one is
C5_Witness ==
    /\ LastVisited = "classify_intent"
    /\ state.error = NoError
    /\ state.tool_name = "remove_vehicle_from_trip"
    /\ ~run.model_value
    /\ state.requires_consequence_check

\* C6: in a run started with user_confirmed false, user_confirmed is false in
\* every intermediate state and in the final state.
C6_NoStageConfirms ==
    (node # "idle" /\ ~run.started_confirmed) => ~state.user_confirmed

\* such a run has been through RequestConfirmation and has ended
C6_Witness ==
    /\ node = "END"
    /\ ~run.started_confirmed
    /\ Visited("request_confirmation")
    /\ ~state.user_confirmed

\* C7: a run without user_confirmed that CheckConsequences rates
\* high ends with response_type "confirmation", a non-empty
\* confirmation_message and no tool invocation; the run that resumes it
\* reaches Execute, does not pass RequestConfirmation and does not end with
\* response_type "confirmation".
C7_RoundTripAlwaysExecutes ==
    node = "END" =>
        /\ (~run.started_confirmed /\ run.cc_risk = "high")
                => /\ state.response_type = "confirmation"
                   /\ state.confirmation_message.len > 0
                   /\ run.tool_calls = 0
        /\ run.resumed
                => /\ Visited("execute_action")
                   /\ ~Visited("request_confirmation")
                   /\ state.response_type # "confirmation"

\* C8 as stated: every run that invokes the tool for an action rated high
\* comes after a run for the same request that ended with response_type
\* "confirmation" and a confirmation_message.
C8_ExplainedBeforeExecuted ==
    (run.tool_calls > 0 /\ run.cc_risk = "high") => run.user_input \in explained

\* C8: every run that invokes the tool for an action rated high was started
\* by the caller with user_confirmed true, and a run rated high that was
\* started without it ends with response_type "confirmation".
C8_CallerConfirmedBeforeExecuted ==
    /\ (run.tool_calls > 0 /\ run.cc_risk = "high") => run.started_confirmed
    /\ (node = "END" /\ run.cc_risk = "high" /\ ~run.started_confirmed)
            => state.response_type = "confirmation"

\* the first run for a request is started confirmed, is rated high and
\* invokes the tool
C8_Witness ==
    /\ run.tool_calls > 0
    /\ run.cc_risk = "high"
    /\ run.started_confirmed
    /\ ~run.resumed
    /\ run.user_input \notin explained

\* C9: in a run resumed from preserved_state, Classify leaves intent, tool_name
\* and tool_params as preserved_state holds them.
C9_ResumeKeepsClassification ==
    [][(run.resumed /\ node = "classify_intent")
            => Classification(state') = Classification(state)]_vars

\* C10: retry_with_backoff invokes the wrapped function at most max_attempts
\* times and returns the number of invocations made as attempts.
C10_RetryBounded ==
    unit.phase = "done"
        => /\ unit.r.calls <= unit.max_attempts
           /\ unit.r.attempts = unit.r.calls

\* three attempts allowed: a failure result, an exception, a third call
C10_Witness ==
    /\ unit.phase = "done"
    /\ unit.max_attempts = 3
    /\ unit.behs[1] = "fail"
    /\ unit.behs[2] = "raise"
    /\ unit.r.calls = 3

\* C11: on every return path of Execute the execution_attempts it records is
\* the number of times the tool function was invoked during that call.
C11_AttemptsAreInvocations ==
    LastVisited = "execute_action" => state.execution_attempts = run.tool_calls

\* C12: a call the tool function rejects for its parameters (here: the
\* required trip_id is missing) is made once in the Execute call and is
\* reported as a parameter error.
C12_ParameterMismatchNotRetried ==
    (LastVisited = "execute_action" /\ run.tool_calls > 0 /\ state.trip_id = NoId)
        => /\ run.tool_calls = 1
           /\ Contains(state.execution_error, "parameter")

\* C13: an Execute call of a write or delete tool that succeeds has mutated
\* the data store exactly once: one Route row more for create_route, the
\* trip's Deployment gone for remove_vehicle_from_trip.
C13_MutatedOncePerSuccess ==
    [][(node = "execute_action" /\ state'.execution_success = "true")
        => CASE TOOL_REGISTRY(state.tool_name) = "create_route" ->
                    db' = [db EXCEPT !.routes = @ + 1]
             [] TOOL_REGISTRY(state.tool_name) = "remove_vehicle_from_trip" ->
                    /\ HasDeployment(db, state.trip_id)
                    /\ db' = [db EXCEPT !.deployments =
                                    {x \in @ : x.trip_id # state.trip_id}]
             [] OTHER -> db' = db]_vars

\* C14: a run starts at Preprocess, runs each stage at most once, goes from
\* Execute to FormatResponse, always has a next stage to run until it has
\* ended, and ends with FormatResponse, run exactly once, as its last stage.
C14_RunEndsAtFormatResponse ==
    /\ \A i, j \in 1..Len(run.path) : run.path[i] = run.path[j] => i = j
    /\ \A i \in 1..Len(run.path) : run.path[i] \in Nodes
    /\ run.path # <<>> => run.path[1] = "preprocess_input"
    /\ LastVisited = "execute_action" => node = "format_response"
    /\ LastVisited = "format_response" <=> node = "END"
    /\ node \in Nodes \cup {"END", "idle"}
    /\ node \in Nodes => ~Visited(node)

\* a run has gone through consequence analysis and execution and has ended
C14_Witness ==
    /\ node = "END"
    /\ Visited("check_consequences")
    /\ Visited("execute_action")
    /\ Len(run.path) = 5

\* C15: at the end of every run the result carries a non-empty response and a
\* response_type among success, error, confirmation, info.
C15_AlwaysAResponse ==
    node = "END"
        => /\ ResponseOf(state).response.len > 0
           /\ ResponseOf(state).response_type \in {"success", "error", "confirmation", "info"}

\* the model call of RequestConfirmation returned nothing usable and the run
\* ended with the fallback confirmation text as its response
C15_Witness ==
    /\ node = "END"
    /\ state.response_type = "confirmation"
    /\ state.response.src = "fallback"
    /\ state.response.len > 0

\* C16: FormatResponse chooses response_type by priority over its input
\* state: error; else pending confirmation, with the confirmation_message as
\* response; else failed execution; else tool results; else info.
C16_FormatPriority ==
    [][node = "format_response"
        => /\ state'.response_type =
                IF state.error # NoError THEN "error"
                ELSE IF state.requires_confirmation /\ ~state.user_confirmed
                     THEN "confirmation"
                ELSE IF state.execution_success = "false" THEN "error"
                ELSE IF state.tool_results # NULL THEN "success"
                ELSE "info"
           /\ state'.response_type = "confirmation"
                => state'.response = state.confirmation_message]_vars

\* FormatResponse, called on a state that holds a failed execution and a
\* pending confirmation, has answered with the confirmation
C16_Witness ==
    /\ unit.phase = "direct"
    /\ LastVisited = "format_response"
    /\ state.execution_success = "false"
    /\ state.tool_results = "failure"
    /\ state.response_type = "confirmation"
    /\ state.response = state.confirmation_message
    /\ state.response.len > 0

\* C17: in the final result of a run, execution_success is unset exactly when
\* Execute did not run in that run, and true or false exactly when it ran.
C17_ExecutionSuccessTriState ==
    node = "END"
        => (ResponseOf(state).execution_success = NULL <=> ~Visited("execute_action"))

\* C18: when Classify yields a read action with requires_consequence_check
\* false and no error, the run goes from Classify to Execute, CheckConsequences
\* and RequestConfirmation do not run, and risk_level is "none" in the final
\* state.
C18_ReadSkipsRiskLogic ==
    (/\ Visited("classify_intent")
     /\ state.error_node # "classify_intent_node"
     /\ state.action_type = "read"
     /\ ~state.requires_consequence_check)
        => /\ LastVisited = "classify_intent" => node = "execute_action"
           /\ ~Visited("check_consequences")
           /\ ~Visited("request_confirmation")
           /\ node = "END" => state.risk_level = "none"

\* C19: a run whose classification succeeds, asks for no consequence check
\* and names no tool ends with the templated acknowledgment and
\* response_type "info".
C19_InformationalRunAcknowledged ==
    (/\ node = "END"
     /\ state.error_node # "classify_intent_node"
     /\ state.action_type = "read"
     /\ ~state.requires_consequence_check
     /\ state.tool_name = NULL)
        => /\ state.response_type = "info"
           /\ state.response.src = "info"

\* C20: after any interleaving of assign-vehicle and remove-vehicle calls,
\* concurrent ones included, the data store holds at most one Deployment per
\* trip and at most one per vehicle.
C20_AtMostOneDeployment == UniqueDeployments(db.deployments)

\* C21: a session's conversation history is append-only: every stored history
\* is a prefix of the one stored after it, and after any set of completed
\* message turns on the session, overlapping ones included, the stored
\* history holds every completed turn's user entry followed by its agent
\* entry.
C21_HistoryAppendOnly ==
    [][/\ IsPrefix(unit.session.conversation_history,
                   unit'.session.conversation_history)
       /\ \A turn \in unit'.completed :
                TurnStored(unit'.session.conversation_history, turn)]_vars

C23_RemoveVehicleRisk ==
    (/\ LastVisited = "check_consequences"
     /\ state.requires_consequence_check
     /\ state.intent = "remove_vehicle"
     /\ state.trip_id \in TripIds
     /\ state.error = NoError)
        => state.risk_level =
                IF ~HasDeployment(db, state.trip_id) THEN "none"
                ELSE IF db.booking[state.trip_id] = 0 THEN "low"
                ELSE "high"

\* the check has rated the removal from a deployed trip without bookings
C23_Witness ==
    /\ LastVisited = "check_consequences"
    /\ state.requires_consequence_check
    /\ state.intent = "remove_vehicle"
    /\ state.trip_id \in TripIds
    /\ HasDeployment(db, state.trip_id)
    /\ db.booking[state.trip_id] = 0
    /\ state.risk_level = "low"

\* C24: for a classification with intent delete_trip and
\* requires_consequence_check true on an existing trip, CheckConsequences
\* applies the delete_trip rule: risk_level "high" when the trip has bookings
\* and "low" otherwise, whether or not a vehicle is deployed on the trip and
\* whatever action_type was classified.
C24_DeleteTripRule ==
    (/\ LastVisited = "check_consequences"
     /\ state.requires_consequence_check
     /\ state.intent = "delete_trip"
     /\ state.trip_id \in TripIds
     /\ state.error = NoError)
        => state.risk_level = IF db.booking[state.trip_id] > 0 THEN "high" ELSE "low"

\* C25: when requires_consequence_check is true for an action other than
\* remove_vehicle, delete_trip or deactivate_route, CheckConsequences returns
\* risk_level "low" with requires_confirmation false, and this is no hard
\* failure: it sets no error and the run goes on to Execute instead of being
\* ended with an error response.
C25_UndefinedAnalysisIsSoft ==
    (/\ LastVisited = "check_consequences"
     /\ state.requires_consequence_check
     /\ state.intent \notin {"remove_vehicle", "delete_trip", "deactivate_route"}
     /\ state.action_type # "delete")
        => /\ state.risk_level = "low"
           /\ ~state.requires_confirmation
           /\ state.error = NoError
           /\ node = "execute_action"

\* C26: when CheckConsequences runs with requires_consequence_check true and
\* cannot find or resolve the entity (a trip or a route that has no row, a
\* name that matches none, no identifier at all), or the lookup fails or
\* raises, it returns risk_level "low", requires_confirmation false and a
\* non-empty error, and the run goes to FormatResponse, no tool being invoked.
C26_FailedAnalysisIsLowAndEnds ==
    [][(node = "check_consequences" /\ state.requires_consequence_check)
        => LET trip_kind == state.intent \in {"remove_vehicle", "delete_trip"}
                                \/ state.action_type = "delete"
               trip_entity == IF state.trip_id \notin {NoId, CollidingParams}
                              THEN state.trip_id ELSE state.ent_trip_id
               missing == \/ trip_kind /\ trip_entity \notin TripIds
                          \/ ~trip_kind /\ state.intent = "deactivate_route"
                                /\ state.route_id \notin RouteIds
               failed == \E fault \in {"session", "query"} :
                            state' = check_consequences_node(state, db, fault)
           IN  (missing \/ failed)
                    => /\ state'.risk_level = "low"
                       /\ ~state'.requires_confirmation
                       /\ state'.error # NoError
                       /\ node' = "format_response"
                       /\ run'.tool_calls = run.tool_calls]_vars

\* C27: whenever RequestConfirmation runs with requires_confirmation true, on
\* every path (usable model reply, empty or under-20-character reply, model
\* call failing) it returns error None, requires_confirmation true,
\* user_confirmed false and a confirmation_message of at least 20 characters.
C27_ConfirmationAlwaysProduced ==
    [][(node = "request_confirmation" /\ state.requires_confirmation)
        => /\ state'.error = NoError
           /\ state'.requires_confirmation
           /\ ~state'.user_confirmed
           /\ state'.confirmation_message.len >= 20]_vars

\* RequestConfirmation has answered with the fallback template
C27_Witness ==
    /\ LastVisited = "request_confirmation"
    /\ state.requires_confirmation
    /\ state.confirmation_message.src = "fallback"
    /\ state.confirmation_message.len >= 20
    /\ state.error = NoError

\* C28: whenever an Execute call of a write or delete tool ends with
\* execution_success false, the call has left the data store unchanged: no
\* attempt of it created or deleted a record.
C28_FailedExecuteLeavesStore ==
    [][(/\ node = "execute_action"
        /\ state.tool_name # NULL
        /\ TOOL_REGISTRY(state.tool_name) \in {"create_route", "remove_vehicle_from_trip"}
        /\ state'.execution_success = "false")
        => db' = db]_vars

\* C29: when two runs concurrently replay the same confirmed remove-vehicle
\* request, the trip's deployment is removed by only one of them: at most one
\* of the runs ends with execution_success true.
C29_OneReplaySucceeds ==
    unit.phase = "replay"
        => Cardinality({p \in Callers : unit.procs[p].execution_success = "true"}) <= 1

\* C30: in the final result of every run, requires_confirmation is true
\* exactly when response_type is "confirmation"; a run that executed the tool
\* after the caller supplied user_confirmed true reports requires_confirmation
\* false.
C30_ConfirmationFlagMatchesType ==
    node = "END"
        => (ResponseOf(state).requires_confirmation
                <=> ResponseOf(state).response_type = "confirmation")

====
